---- MODULE Spec2Model ----
(***************************************************************************)
(* Model of skills/cryptocompare/fetch_news.py: the coroutine              *)
(* CryptoCompareFetchNews._arun, its two suspension points (the await of   *)
(* check_rate_limit and the await of fetch_news), the blanket exception    *)
(* handler and the mapping of the provider's JSON to NewsArticle records.  *)
(*                                                                         *)
(* Python values are encoded as follows.                                   *)
(*   Optional value   : <<>> is None / absent, <<v>> is the value v.       *)
(*   str to be split  : a sequence of one-character strings.               *)
(*   dict entry       : a record whose field f is <<>> when the key f is   *)
(*                      missing and <<v>> when the key maps to v.          *)
(*   exception        : [type |-> class name, text |-> str(e)].            *)
(***************************************************************************)
EXTENDS Integers, Sequences, FiniteSets, TLC

VARIABLES pc, token, context, decision, fetched, result, trace,
          limiterArg, fetchArgs, raw, parts, phase

vars == <<pc, token, context, decision, fetched, result, trace,
          limiterArg, fetchArgs, raw, parts, phase>>

invVars == <<pc, token, context, decision, fetched, result, trace,
             limiterArg, fetchArgs>>

splitVars == <<raw, parts, phase>>

(* ------------------------------ bounds --------------------------------- *)

\* longest "Data" list the provider returns
MaxData == 2
\* longest raw categories string enumerated for the split
MaxLen == 4

(* --------------------------- Python helpers ---------------------------- *)

None == <<>>
Some(v) == <<v>>

\* the delimiter of article["categories"].split("|")
Sep == "|"

\* str.split(sep) with a one-character separator: scan left to right, close
\* the current segment at every separator, close the last one at the end.
RECURSIVE SplitAcc(_, _, _)
SplitAcc(s, cur, acc) ==
    IF s = <<>> THEN Append(acc, cur)
    ELSE IF Head(s) = Sep THEN SplitAcc(Tail(s), <<>>, Append(acc, cur))
    ELSE SplitAcc(Tail(s), Append(cur, Head(s)), acc)

\* a split that drops empty segments, as str.split() without separator does
SplitDropEmpty(s) ==
    SelectSeq(SplitAcc(s, <<>>, <<>>), LAMBDA p : p # <<>>)

Split(s) == SplitAcc(s, <<>>, <<>>)

\* str(x) for the id field: an int prints in decimal, a str is itself
PyStr(v) == IF v.type = "int" THEN ToString(v.int) ELSE v.str

\* an exception: the method resolution order of its class (the class first,
\* then its ancestors) and str(e)
Exc(mro, text) == [type |-> mro[1], mro |-> mro, text |-> text]

\* isinstance(e, cls): cls is the class of e or one of its ancestors
IsInstance(e, cls) == \E k \in 1..Len(e.mro) : e.mro[k] = cls

\* the classes of the exceptions raised here, each with its ancestors
KeyErrorClass ==
    <<"KeyError", "LookupError", "Exception", "BaseException", "object">>
LookupErrorClass == <<"LookupError", "Exception", "BaseException", "object">>
AttributeErrorClass ==
    <<"AttributeError", "Exception", "BaseException", "object">>
TypeErrorClass == <<"TypeError", "Exception", "BaseException", "object">>
ValueErrorClass == <<"ValueError", "Exception", "BaseException", "object">>
RuntimeErrorClass ==
    <<"RuntimeError", "Exception", "BaseException", "object">>
OSErrorClass == <<"OSError", "Exception", "BaseException", "object">>
ConnectionErrorClass ==
    <<"ConnectionError", "OSError", "Exception", "BaseException", "object">>
TimeoutErrorClass ==
    <<"TimeoutError", "OSError", "Exception", "BaseException", "object">>
JSONDecodeErrorClass ==
    <<"JSONDecodeError", "ValueError", "Exception", "BaseException",
      "object">>
\* concurrent.futures.CancelledError, which derives from Exception
FuturesCancelledErrorClass ==
    <<"CancelledError", "Error", "Exception", "BaseException", "object">>

\* a handler written `except KeyError` instead of `except Exception`
CaughtOnlyKeyError(e) == IsInstance(e, "KeyError")

\* line 106: `except Exception` catches the instances of Exception and of
\* its subclasses, whatever the name of the class
Caught(e) == IsInstance(e, "Exception")

(* ------------------------------ results -------------------------------- *)

\* an output model whose error field defaults to "" instead of None
OutputErrorDefaultsEmpty(articles, error) ==
    [articles |-> articles, error |-> IF error = None THEN Some("") ELSE error]

\* CryptoCompareFetchNewsOutput(articles=..., error=...), defaults [] and None
Output(articles, error) == [articles |-> articles, error |-> error]

InvalidFormatMsg == "Invalid response format from CryptoCompare API"

\* the normal completion of the coroutine and the propagation of an exception
NoExc == [type |-> "", mro |-> <<>>, text |-> ""]
Return(out) == [how |-> "return", out |-> out, exc |-> NoExc]
Raise(e) == [how |-> "raise", out |-> Output(<<>>, None), exc |-> e]

\* lines 71 and 106-107: an exception the handler catches becomes
\* CryptoCompareFetchNewsOutput(error=str(e)); anything else propagates
TryExcept(c) ==
    IF c.how = "raise" /\ Caught(c.exc)
    THEN Return(Output(<<>>, Some(c.exc.text)))
    ELSE c

(* --------------------------- response mapping -------------------------- *)

\* the keys of a data entry in the order lines 93-99 read them
FieldOrder ==
    <<"id", "title", "body", "published_on", "url", "source", "categories">>

\* str(KeyError(k))
KeyErrorText(k) == "'" \o k \o "'"

NoArticle ==
    [id |-> "", title |-> "", body |-> "", published_at |-> 0, url |-> "",
     source |-> "", categories |-> <<>>]

\* lines 92-100 for one entry: the keyword arguments are evaluated in order,
\* so the first missing key raises KeyError; .split on a categories value
\* that is not a str raises AttributeError
MapArticle(entry) ==
    LET missing == {k \in 1..Len(FieldOrder) : entry[FieldOrder[k]] = None}
        first == CHOOSE k \in missing : \A j \in missing : k <= j
    IN  IF missing # {}
        THEN [ok |-> FALSE, article |-> NoArticle,
              exc |-> Exc(KeyErrorClass, KeyErrorText(FieldOrder[first]))]
        ELSE IF ~entry.categories[1].isStr
        THEN [ok |-> FALSE, article |-> NoArticle,
              exc |-> Exc(AttributeErrorClass,
                          "'NoneType' object has no attribute 'split'")]
        ELSE [ok |-> TRUE,
              article |-> [id |-> PyStr(entry.id[1]),
                           title |-> entry.title[1],
                           body |-> entry.body[1],
                           published_at |-> entry.published_on[1],
                           url |-> entry.url[1],
                           source |-> entry.source[1],
                           categories |-> Split(entry.categories[1].chars)],
              exc |-> NoExc]

\* a comprehension that recovers per element: a failing entry is skipped
RECURSIVE MapSkipFailing(_, _)
MapSkipFailing(data, acc) ==
    IF data = <<>> THEN Return(Output(acc, None))
    ELSE LET r == MapArticle(Head(data))
         IN  IF r.ok THEN MapSkipFailing(Tail(data), Append(acc, r.article))
             ELSE MapSkipFailing(Tail(data), acc)

\* a comprehension that builds the list back to front
RECURSIVE MapReversed(_, _)
MapReversed(data, acc) ==
    IF data = <<>> THEN Return(Output(acc, None))
    ELSE LET r == MapArticle(Head(data))
         IN  IF r.ok THEN MapReversed(Tail(data), <<r.article>> \o acc)
             ELSE Raise(r.exc)

\* lines 91-104: the list comprehension over result["Data"], in order; the
\* first entry that fails raises and the articles built so far are dropped
RECURSIVE MapFrom(_, _)
MapFrom(data, acc) ==
    IF data = <<>> THEN Return(Output(acc, None))
    ELSE LET r == MapArticle(Head(data))
         IN  IF r.ok THEN MapFrom(Tail(data), Append(acc, r.article))
             ELSE Raise(r.exc)

\* a truthiness test of the response (`if not result`) in place of the key test
HasAnyField(resp) == resp.keys # {}

\* line 85: "Data" in result
HasDataField(resp) == "Data" \in resp.keys

\* lines 85-104 on the value fetch_news returned
MapResponse(resp) ==
    IF resp.shape # "dict"
    THEN Raise(Exc(TypeErrorClass,
                   "argument of type 'NoneType' is not iterable"))
    ELSE IF ~HasDataField(resp)
    THEN Return(Output(<<>>, Some(InvalidFormatMsg)))
    ELSE IF ~resp.iterable
    THEN Raise(Exc(TypeErrorClass, "'NoneType' object is not iterable"))
    ELSE MapFrom(resp.data, <<>>)

\* the continuation of line 83 once the await of fetch_news completes
AfterFetch(outcome) ==
    IF outcome.kind = "raise" THEN Raise(outcome.exc)
    ELSE MapResponse(outcome.resp)

(* ------------------------------- inputs -------------------------------- *)

Tokens == {"BTC", "ETH"}

\* what context_from_config(config) can produce: nothing, a context with its
\* agent, a context whose agent is None, or an exception
NoContext ==
    [resolved |-> TRUE, present |-> FALSE, hasAgent |-> FALSE,
     agent_id |-> "", api_key |-> None, exc |-> NoExc]
Ctx(agent, key) ==
    [resolved |-> TRUE, present |-> TRUE, hasAgent |-> TRUE,
     agent_id |-> agent, api_key |-> key, exc |-> NoExc]
CtxNoAgent(key) ==
    [resolved |-> TRUE, present |-> TRUE, hasAgent |-> FALSE,
     agent_id |-> "", api_key |-> key, exc |-> NoExc]
ContextRaises(e) ==
    [resolved |-> FALSE, present |-> FALSE, hasAgent |-> FALSE,
     agent_id |-> "", api_key |-> None, exc |-> e]

NotConfigurable == Exc(ValueErrorClass, "configurable not in runner_config")

Contexts ==
    {NoContext, Ctx("agent-1", Some("key-1")), Ctx("agent-2", None),
     CtxNoAgent(Some("key-1")), ContextRaises(NotConfigurable)}

\* what the await of check_rate_limit can produce: a (bool, message) pair,
\* a value that does not unpack into two names, or an exception
LimitReturns(limited, msg) ==
    [kind |-> "return", limited |-> limited, msg |-> msg, exc |-> NoExc]
LimitMalformed ==
    [kind |-> "malformed", limited |-> FALSE, msg |-> None, exc |-> NoExc]
LimitRaises(e) ==
    [kind |-> "raise", limited |-> FALSE, msg |-> None, exc |-> e]

LimitedMsg == "Rate limit exceeded. Try again later."

LimiterOutcomes ==
    {LimitReturns(FALSE, None),
     LimitReturns(TRUE, Some(LimitedMsg)),
     LimitReturns(TRUE, Some("")),
     LimitMalformed,
     LimitRaises(Exc(RuntimeErrorClass, "rate limit store unavailable")),
     LimitRaises(Exc(LookupErrorClass, "no such agent"))}

\* readings of time.time(): whole seconds and the fraction int() drops
Times == {[sec |-> 1700000000, tenth |-> 0], [sec |-> 1700000001, tenth |-> 9]}

\* line 80: int(time.time())
IntOfTime(t) == t.sec

\* the values of the fields of a data entry
IntId(n) == [type |-> "int", int |-> n, str |-> ""]
StrId(x) == [type |-> "str", int |-> 0, str |-> x]
Cats(chars) == [isStr |-> TRUE, chars |-> chars]
CatsNone == [isStr |-> FALSE, chars |-> <<>>]

Entry(id, title, cats) ==
    [id |-> id, title |-> title, body |-> Some("body text"),
     published_on |-> Some(1699999000),
     url |-> Some("https://news.example/a"), source |-> Some("CoinDesk"),
     categories |-> cats]

GoodA == Entry(Some(IntId(101)), Some("Bitcoin rallies"),
               Some(Cats(<<"B", "T", "C", "|", "M">>)))
GoodB == Entry(Some(StrId("n-2")), Some("Ether dips"), Some(Cats(<<>>)))
NoTitle == Entry(Some(IntId(103)), None, Some(Cats(<<"A">>)))
NoCategories == Entry(Some(StrId("n-4")), Some("Untagged"), None)
NullCategories == Entry(Some(IntId(105)), Some("Null tags"), Some(CatsNone))
NoIdNullCategories == Entry(None, Some("Anonymous"), Some(CatsNone))

Entries ==
    {GoodA, GoodB, NoTitle, NoCategories, NullCategories, NoIdNullCategories}

WellFormed(entry) ==
    /\ \A k \in 1..Len(FieldOrder) : entry[FieldOrder[k]] # None
    /\ entry.categories[1].isStr

DataLists(entries) == UNION {[1..n -> entries] : n \in 0..MaxData}

\* the values the await of fetch_news can produce
Dict(keys, iterable, data) ==
    [shape |-> "dict", keys |-> keys, iterable |-> iterable, data |-> data]
NotADict == [shape |-> "none", keys |-> {}, iterable |-> FALSE, data |-> <<>>]

FetchReturns(resp) == [kind |-> "return", resp |-> resp, exc |-> NoExc]
FetchRaises(e) == [kind |-> "raise", resp |-> NotADict, exc |-> e]

Responses(entries) ==
    {Dict({"Data"}, TRUE, d) : d \in DataLists(entries)}
    \cup {Dict({"Data", "Type"}, FALSE, <<>>),
          Dict({}, FALSE, <<>>),
          Dict({"Response", "Message"}, FALSE, <<>>),
          NotADict}

FetchOutcomes ==
    {FetchReturns(r) : r \in Responses(Entries)}
    \cup {FetchRaises(Exc(ConnectionErrorClass, "Connection refused")),
          FetchRaises(Exc(TimeoutErrorClass, "")),
          FetchRaises(Exc(OSErrorClass, "disk")),
          FetchRaises(Exc(FuturesCancelledErrorClass, "")),
          FetchRaises(Exc(JSONDecodeErrorClass,
                          "Expecting value: line 1 column 1 (char 0)"))}

(* ----------------------------- the coroutine --------------------------- *)

\* line 74: context.agent.id if context else None
AgentId(ctx) == IF ctx.present THEN Some(ctx.agent_id) ELSE None

CallFetch(args) == [how |-> "call", out |-> Output(<<>>, None), exc |-> NoExc,
                    args |-> args]
NoArgs == [api_key |-> None, token |-> "", timestamp |-> 0]
Finish(c) == [how |-> c.how, out |-> c.out, exc |-> c.exc, args |-> NoArgs]

\* lines 76-83 with the test of is_rate_limited left out
BeforeFetchLimitIgnored(ctx, tok, outcome, t) ==
    IF outcome.kind = "raise" THEN Finish(Raise(outcome.exc))
    ELSE IF outcome.kind = "malformed"
    THEN Finish(Raise(Exc(TypeErrorClass,
                          "cannot unpack non-iterable NoneType object")))
    ELSE IF ~ctx.present
    THEN Finish(Raise(Exc(AttributeErrorClass,
                          "'NoneType' object has no attribute 'config'")))
    ELSE CallFetch([api_key |-> ctx.api_key, token |-> tok,
                    timestamp |-> IntOfTime(t)])

\* lines 76-83, from the completion of the await of check_rate_limit to the
\* call of fetch_news: the pair is unpacked, a limited caller gets the
\* limiter's message, the clock is read, and the arguments of fetch_news are
\* evaluated, of which context.config fails when there is no context
BeforeFetch(ctx, tok, outcome, t) ==
    IF outcome.kind = "raise" THEN Finish(Raise(outcome.exc))
    ELSE IF outcome.kind = "malformed"
    THEN Finish(Raise(Exc(TypeErrorClass,
                          "cannot unpack non-iterable NoneType object")))
    ELSE IF outcome.limited
    THEN Finish(Return(Output(<<>>, outcome.msg)))
    ELSE IF ~ctx.present
    THEN Finish(Raise(Exc(AttributeErrorClass,
                          "'NoneType' object has no attribute 'config'")))
    ELSE CallFetch([api_key |-> ctx.api_key, token |-> tok,
                    timestamp |-> IntOfTime(t)])

\* the coroutine ends: it returns its output, or an exception leaves it
Complete(i, c) ==
    /\ pc' = [pc EXCEPT ![i] = IF c.how = "return" THEN "done" ELSE "raised"]
    /\ result' = [result EXCEPT
                    ![i] = IF c.how = "return" THEN Some(c.out)
                           ELSE None]
    /\ trace' = [trace EXCEPT
                    ![i] = Append(@, IF c.how = "return" THEN "return"
                                     ELSE "raise")]

\* lines 73-74, both inside the try: context_from_config may raise, and
\* context.agent.id raises AttributeError for a context whose agent is None
ResolveIdentity(ctx) ==
    IF ~ctx.resolved THEN Raise(ctx.exc)
    ELSE IF ctx.present /\ ~ctx.hasAgent
    THEN Raise(Exc(AttributeErrorClass,
                   "'NoneType' object has no attribute 'id'"))
    ELSE Return(Output(<<>>, None))

\* lines 58-76: the call of _arun up to the await of check_rate_limit, or to
\* the return of line 107 when the identity cannot be resolved
StartWith(i, tok, ctx) ==
    /\ token' = [token EXCEPT ![i] = Some(tok)]
    /\ context' = [context EXCEPT ![i] = Some(ctx)]
    /\ IF ResolveIdentity(ctx).how = "raise"
       THEN /\ Complete(i, TryExcept(ResolveIdentity(ctx)))
            /\ UNCHANGED limiterArg
       ELSE /\ limiterArg' = [limiterArg EXCEPT ![i] = Some(AgentId(ctx))]
            /\ pc' = [pc EXCEPT ![i] = "await_limit"]
            /\ trace' = [trace EXCEPT ![i] = Append(@, "check_rate_limit")]
            /\ UNCHANGED result
    /\ UNCHANGED <<decision, fetched, fetchArgs, splitVars>>

Start(i, tokens, contexts) ==
    /\ pc[i] = "idle"
    /\ \E tok \in tokens, ctx \in contexts : StartWith(i, tok, ctx)

\* lines 76-83: check_rate_limit completes and the coroutine runs on to its
\* return or to the await of fetch_news
LimiterResume(i, outcome, t) ==
    LET c == BeforeFetch(context[i][1], token[i][1], outcome, t)
    IN  /\ decision' = [decision EXCEPT ![i] = Some(outcome)]
        /\ IF c.how = "call"
           THEN /\ pc' = [pc EXCEPT ![i] = "await_fetch"]
                /\ fetchArgs' = [fetchArgs EXCEPT ![i] = Some(c.args)]
                /\ trace' = [trace EXCEPT ![i] = Append(@, "fetch_news")]
                /\ UNCHANGED result
           ELSE /\ Complete(i, TryExcept([how |-> c.how, out |-> c.out,
                                          exc |-> c.exc]))
                /\ UNCHANGED fetchArgs
        /\ UNCHANGED <<token, context, fetched, limiterArg, splitVars>>

LimiterReturn(i, outcomes, times) ==
    /\ pc[i] = "await_limit"
    /\ \E outcome \in outcomes, t \in times : LimiterResume(i, outcome, t)

\* a failed fetch that is tried a second time
FetchResumeRetry(i, outcome) ==
    IF outcome.kind = "raise" /\ Len(trace[i]) < 3
    THEN /\ trace' = [trace EXCEPT ![i] = Append(@, "fetch_news")]
         /\ UNCHANGED <<pc, token, context, decision, fetched, result,
                        limiterArg, fetchArgs, splitVars>>
    ELSE /\ fetched' = [fetched EXCEPT ![i] = Some(outcome)]
         /\ Complete(i, TryExcept(AfterFetch(outcome)))
         /\ UNCHANGED <<token, context, decision, limiterArg, fetchArgs,
                        splitVars>>

\* lines 83-107: fetch_news completes and the coroutine runs to its return
FetchResume(i, outcome) ==
    /\ fetched' = [fetched EXCEPT ![i] = Some(outcome)]
    /\ Complete(i, TryExcept(AfterFetch(outcome)))
    /\ UNCHANGED <<token, context, decision, limiterArg, fetchArgs, splitVars>>

FetchReturn(i, outcomes) ==
    /\ pc[i] = "await_fetch"
    /\ \E outcome \in outcomes : FetchResume(i, outcome)

(* --------------------- the categories split on its own ----------------- *)

SplitAlphabet == {"a", "b", Sep}

BlockchainMiningTrading ==
    <<"B", "l", "o", "c", "k", "c", "h", "a", "i", "n", "|",
      "M", "i", "n", "i", "n", "g", "|",
      "T", "r", "a", "d", "i", "n", "g">>

RawStrings ==
    UNION {[1..n -> SplitAlphabet] : n \in 0..MaxLen}
    \cup {BlockchainMiningTrading}

\* line 99 applied to an entry whose categories string is raw
SplitStep ==
    /\ phase = "input"
    /\ parts' = MapArticle(Entry(Some(IntId(1)), Some("t"),
                                 Some(Cats(raw)))).article.categories
    /\ phase' = "split"
    /\ UNCHANGED <<raw, invVars>>

(* --------------------------- specifications ---------------------------- *)

InitInv(I) ==
    /\ pc = [i \in I |-> "idle"]
    /\ token = [i \in I |-> None]
    /\ context = [i \in I |-> None]
    /\ decision = [i \in I |-> None]
    /\ fetched = [i \in I |-> None]
    /\ result = [i \in I |-> None]
    /\ trace = [i \in I |-> <<>>]
    /\ limiterArg = [i \in I |-> None]
    /\ fetchArgs = [i \in I |-> None]

NoSplit == raw = <<>> /\ parts = <<>> /\ phase = "unused"

\* one invocation, every input
Init == InitInv({1}) /\ NoSplit

Next ==
    \E i \in DOMAIN pc :
        \/ Start(i, Tokens, Contexts)
        \/ LimiterReturn(i, LimiterOutcomes, Times)
        \/ FetchReturn(i, FetchOutcomes)

Spec == Init /\ [][Next]_vars

\* the split applied to every raw string of the bounded alphabet
InitSplit ==
    /\ InitInv({})
    /\ raw \in RawStrings
    /\ parts = <<>>
    /\ phase = "input"

NextSplit == SplitStep

SpecSplit == InitSplit /\ [][NextSplit]_vars

(* ------------------------------ properties ----------------------------- *)

Done(i) == pc[i] = "done"
Limited(i) ==
    decision[i] # None /\ decision[i][1].kind = "return"
    /\ decision[i][1].limited
NotLimited(i) ==
    decision[i] # None /\ decision[i][1].kind = "return"
    /\ ~decision[i][1].limited
FetchRaised(i) == fetched[i] # None /\ fetched[i][1].kind = "raise"
GotDict(i) ==
    fetched[i] # None /\ fetched[i][1].kind = "return"
    /\ fetched[i][1].resp.shape = "dict"
GotData(i) ==
    GotDict(i) /\ "Data" \in fetched[i][1].resp.keys
    /\ fetched[i][1].resp.iterable
DataOf(i) == fetched[i][1].resp.data
Failing(data) == {k \in 1..Len(data) : ~WellFormed(data[k])}
Count(seq, x) == Cardinality({k \in 1..Len(seq) : seq[k] = x})

\* C1: every invocation ends by returning an output object; no failure of
\* the rate-limit check, the fetch, the response access or the mapping leaves
\* the coroutine as a raised exception.
C1_AlwaysReturnsResult ==
    \A i \in DOMAIN pc :
        /\ pc[i] # "raised"
        /\ "raise" \notin {trace[i][k] : k \in 1..Len(trace[i])}
        /\ Done(i) => /\ result[i] # None
                      /\ result[i][1].articles \in Seq(
                             {MapArticle(e).article : e \in Entries})
                      /\ Len(result[i][1].error) <= 1

C1_Witness ==
    \E i \in DOMAIN pc :
        /\ Done(i) /\ FetchRaised(i)
        /\ fetched[i][1].exc.type = "ConnectionError"
        /\ result[i][1].error = Some("Connection refused")

\* C2: a limited invocation never calls fetch_news and returns the limiter's
\* message as its error, with no articles.
C2_LimitedShortCircuits ==
    \A i \in DOMAIN pc :
        Limited(i) =>
            /\ Done(i)
            /\ Count(trace[i], "fetch_news") = 0
            /\ fetchArgs[i] = None /\ fetched[i] = None
            /\ decision[i][1].msg # None
            /\ result[i][1].error = decision[i][1].msg
            /\ result[i][1].articles = <<>>

C2_Witness ==
    \E i \in DOMAIN pc :
        /\ Limited(i) /\ Done(i)
        /\ context[i][1].present
        /\ result[i][1] = Output(<<>>, Some(LimitedMsg))

\* C3: a well-formed response with N data entries gives a result without
\* error whose N articles are the mappings of the entries, in the provider's
\* order.
C3_SuccessPreservesOrder ==
    \A i \in DOMAIN pc :
        (Done(i) /\ GotData(i) /\ Failing(DataOf(i)) = {}) =>
            /\ result[i][1].error = None
            /\ Len(result[i][1].articles) = Len(DataOf(i))
            /\ \A k \in 1..Len(DataOf(i)) :
                   result[i][1].articles[k] = MapArticle(DataOf(i)[k]).article

C3_Witness ==
    \E i \in DOMAIN pc :
        /\ Done(i) /\ GotData(i) /\ NotLimited(i)
        /\ DataOf(i) = <<GoodA, GoodB>>
        /\ result[i][1].articles[1].id = "101"
        /\ result[i][1].articles[2].id = "n-2"

\* C4: with no agent identity the limiter is called with a null identity
\* and, unless it answers limited, the invocation goes on to the remote
\* fetch as it does for an identified caller.
C4_AnonymousProceedsToFetch ==
    \A i \in DOMAIN pc :
        (Done(i) /\ context[i][1].resolved /\ ~context[i][1].hasAgent) =>
            /\ limiterArg[i] = Some(None)
            /\ NotLimited(i) => /\ Count(trace[i], "fetch_news") = 1
                                /\ fetchArgs[i] # None

\* C5: a response without the "Data" key gives the fixed format error and
\* no articles, whatever else it holds.
C5_MissingDataField ==
    \A i \in DOMAIN pc :
        (Done(i) /\ GotDict(i) /\ "Data" \notin fetched[i][1].resp.keys) =>
            result[i][1] = Output(<<>>, Some(InvalidFormatMsg))

C5_Witness ==
    \E i \in DOMAIN pc :
        /\ Done(i) /\ GotDict(i)
        /\ fetched[i][1].resp.keys = {"Response", "Message"}
        /\ result[i][1].error = Some(InvalidFormatMsg)

\* C6: when fetch_news raises, or the mapping of an entry fails at any
\* position, the result is the exception's text with no articles: the
\* articles mapped before the failing entry are dropped.
C6_FailureDropsPartialArticles ==
    \A i \in DOMAIN pc :
        /\ (Done(i) /\ FetchRaised(i)) =>
               result[i][1] = Output(<<>>, Some(fetched[i][1].exc.text))
        /\ (Done(i) /\ GotData(i) /\ Failing(DataOf(i)) # {}) =>
               LET k == CHOOSE k \in Failing(DataOf(i)) :
                            \A j \in Failing(DataOf(i)) : k <= j
               IN  result[i][1] =
                       Output(<<>>, Some(MapArticle(DataOf(i)[k]).exc.text))

C6_Witness ==
    \E i \in DOMAIN pc :
        /\ Done(i) /\ GotData(i)
        /\ DataOf(i) = <<GoodA, NullCategories>>
        /\ result[i][1] =
               Output(<<>>, Some("'NoneType' object has no attribute 'split'"))

IdentityResolved(i) ==
    context[i] # None /\ ResolveIdentity(context[i][1]).how = "return"

\* C8 as stated: the limiter is called exactly once and first, fetch_news at
\* most once and only after the limiter answered not limited, and the return
\* comes last.
C8_LimiterCalledExactlyOnce ==
    \A i \in DOMAIN pc :
        /\ \/ \E n \in 0..3 :
                 trace[i] = SubSeq(<<"check_rate_limit", "fetch_news",
                                     "return">>, 1, n)
           \/ trace[i] = <<"check_rate_limit", "return">>
        /\ Count(trace[i], "fetch_news") >= 1 => NotLimited(i)
        /\ Done(i) => /\ Count(trace[i], "check_rate_limit") = 1
                      /\ Count(trace[i], "fetch_news") <= 1
                      /\ trace[i][Len(trace[i])] = "return"

\* C8 amended: the limiter is called at most once and before any fetch, and
\* exactly once when the identity is resolved without an exception (when
\* lines 73-74 raise, the invocation returns without calling it); fetch_news
\* is called at most once and only after the limiter answered not limited,
\* and the return comes last.
C8_StepOrder ==
    \A i \in DOMAIN pc :
        /\ \/ \E n \in 0..3 :
                 trace[i] = SubSeq(<<"check_rate_limit", "fetch_news",
                                     "return">>, 1, n)
           \/ trace[i] = <<"check_rate_limit", "return">>
           \/ trace[i] = <<"return">> /\ ~IdentityResolved(i)
        /\ Count(trace[i], "fetch_news") >= 1 => NotLimited(i)
        /\ Done(i) =>
              /\ Count(trace[i], "check_rate_limit")
                     = IF IdentityResolved(i) THEN 1 ELSE 0
              /\ Count(trace[i], "fetch_news") <= 1
              /\ trace[i][Len(trace[i])] = "return"

C8_Witness ==
    \E i \in DOMAIN pc :
        /\ Done(i) /\ FetchRaised(i)
        /\ trace[i] = <<"check_rate_limit", "fetch_news", "return">>

RECURSIVE Join(_)
Join(ps) ==
    IF ps = <<>> THEN <<>>
    ELSE IF Len(ps) = 1 THEN ps[1]
    ELSE ps[1] \o <<Sep>> \o Join(Tail(ps))

\* C9: the categories of an article are the raw string split on "|": k
\* delimiters give k+1 segments whose "|"-join is the raw string;
\* "Blockchain|Mining|Trading" gives its three names and "" gives [""].
C9_CategoriesSplit ==
    phase = "split" =>
        /\ Len(parts) = Count(raw, Sep) + 1
        /\ \A k \in 1..Len(parts) : Count(parts[k], Sep) = 0
        /\ Join(parts) = raw
        /\ raw = BlockchainMiningTrading =>
               parts = <<SubSeq(raw, 1, 10), SubSeq(raw, 12, 17),
                         SubSeq(raw, 19, 25)>>
        /\ raw = <<>> => parts = << <<>> >>

C9_Witness ==
    /\ phase = "split"
    /\ raw = <<"a", Sep, Sep, "b">>
    /\ parts = << <<"a">>, <<>>, <<"b">> >>

\* C10: no returned result has both an error and articles.
C10_ErrorAndArticlesExclusive ==
    \A i \in DOMAIN pc :
        Done(i) =>
            /\ result[i][1].error # None => result[i][1].articles = <<>>
            /\ result[i][1].articles # <<>> => result[i][1].error = None

C10_Witness ==
    \E i \in DOMAIN pc :
        /\ Done(i) /\ GotData(i)
        /\ DataOf(i) = <<GoodB, NoTitle>>
        /\ result[i][1].error = Some("'title'")
        /\ result[i][1].articles = <<>>

====
